---- MODULE Spec2Model ----
(***************************************************************************)
(* State-machine model of samples/nrf9160/tcp_client/src/main.c: the main  *)
(* thread (work_init, configure_low_power, modem_configure, k_sem_take,    *)
(* client_init, client_connect, k_delayed_work_submit), the LTE event      *)
(* handler lte_handler, and the delayed work server_transmission_work_fn   *)
(* running on the system work queue.  The modem, the socket layer and the  *)
(* kernel timer are the environment: their results are drawn from small    *)
(* sets.                                                                   *)
(***************************************************************************)
EXTENDS Integers, Sequences, FiniteSets, TLC

VARIABLES
    config,           \* the build-time CONFIG_* options
    pc,               \* position of main()
    err,              \* main()'s local err
    lpCalls,          \* lte_lc_*_req calls made by configure_low_power, in order
    modemStarted,     \* the link-control library is initialised and connecting
    handlerRegistered,\* lte_handler is registered with the library
    linkState,        \* network registration status of the modem
    everRegistered,   \* the link has been RegisteredHome/Roaming at some time
    lte_connected,    \* count of the semaphore lte_connected
    client_fd,        \* static int client_fd
    openFds,          \* descriptors of the sockets that are open
    socketLog,        \* return values of the socket() calls
    connectLog,       \* return values of the connect() calls
    closeLog,         \* the close() calls: descriptor and whether it was open
    session,          \* Disconnected / Connected / Failed
    work_inited,      \* k_delayed_work_init has run
    work_pending,     \* server_transmission_work is submitted and not yet run
    work_delay,       \* seconds left before the pending work runs
    wpc,              \* position of server_transmission_work_fn
    submitCount,      \* k_delayed_work_submit calls (saturating)
    sendCount,        \* send() calls (saturating)
    lastTx,           \* bytes accepted by the transport in the last send()
    sendFailed,       \* a send() has returned an error
    failedAt,         \* the firing on which send() failed
    disc_calls,       \* client_disconnect calls made by the disconnect harness
    disc_snap         \* session state after the harness's first call

vars == <<config, pc, err, lpCalls, modemStarted, handlerRegistered, linkState,
          everRegistered, lte_connected, client_fd, openFds,
          socketLog, connectLog, closeLog, session, work_inited, work_pending,
          work_delay, wpc, submitCount, sendCount, lastTx, sendFailed, failedAt,
          disc_calls, disc_snap>>

mainVars == <<pc, err>>
lteVars == <<modemStarted, handlerRegistered, linkState, everRegistered,
             lte_connected>>
sockVars == <<client_fd, openFds, socketLog, connectLog, closeLog, session>>
workVars == <<work_inited, work_pending, work_delay, wpc, submitCount,
              sendCount, lastTx, sendFailed, failedAt>>
discVars == <<disc_calls, disc_snap>>

----------------------------------------------------------------------------
(* Bounds *)

MaxPayload == 2
UploadFrequencySeconds == 1
MaxFirings == 4
MaxFd == 1

(* Program constants *)

SemInitial == 0
SemLimit == 1

----------------------------------------------------------------------------
(* Values *)

Min(a, b) == IF a < b THEN a ELSE b

Configs ==
    [LTE_LINK_CONTROL : BOOLEAN,
     LTE_AUTO_INIT_AND_CONNECT : BOOLEAN,
     TCP_PSM_ENABLE : BOOLEAN,
     TCP_EDRX_ENABLE : BOOLEAN,
     TCP_RAI_ENABLE : BOOLEAN,
     TCP_DATA_UPLOAD_SIZE_BYTES : 1..MaxPayload]

Fds == 0..MaxFd

\* 0 on success, a negative value on error
Results == {0, -1}

RegStatuses == {"NOT_REGISTERED", "REGISTERED_HOME", "SEARCHING",
                "REGISTERED_ROAMING"}
Registered == {"REGISTERED_HOME", "REGISTERED_ROAMING"}

EvtTypes == {"NW_REG_STATUS", "PSM_UPDATE", "EDRX_UPDATE", "RRC_UPDATE",
             "CELL_UPDATE", "OTHER"}

Events ==
    [type : {"NW_REG_STATUS"}, nw_reg_status : RegStatuses]
    \cup [type : EvtTypes \ {"NW_REG_STATUS"}, nw_reg_status : {"NA"}]

\* char buffer[CONFIG_TCP_DATA_UPLOAD_SIZE_BYTES] = {"\0"}
buffer == [i \in 1..config.TCP_DATA_UPLOAD_SIZE_BYTES |-> 0]

----------------------------------------------------------------------------
(* Kernel and socket-layer primitives *)

\* Faulty variant: the semaphore has no limit
k_sem_give_unbounded(count) == count + 1

\* k_sem_give on a semaphore with limit SemLimit
k_sem_give(count) == IF count < SemLimit THEN count + 1 ELSE count

\* close(fd): releases fd when it is open (otherwise fails with EBADF)
close(open, log, fd) ==
    [open |-> open \ {fd},
     log  |-> Append(log, [fd |-> fd, released |-> fd \in open])]

\* k_delayed_work_submit(&server_transmission_work, delay)
k_delayed_work_submit(delay) ==
    /\ work_pending' = TRUE
    /\ work_delay' = delay
    /\ submitCount' = Min(submitCount + 1, MaxFirings)

----------------------------------------------------------------------------
(* Initial state: the statics of main.c after boot *)

Init ==
    /\ config \in Configs
    /\ pc = "work_init"
    /\ err = 0
    /\ lpCalls = <<>>
    /\ modemStarted = (config.LTE_LINK_CONTROL /\ config.LTE_AUTO_INIT_AND_CONNECT)
    /\ handlerRegistered = FALSE
    /\ linkState \in (IF modemStarted THEN RegStatuses ELSE {"NOT_REGISTERED"})
    /\ everRegistered = (linkState \in Registered)
    /\ lte_connected = SemInitial
    /\ client_fd = 0
    /\ openFds = {}
    /\ socketLog = <<>>
    /\ connectLog = <<>>
    /\ closeLog = <<>>
    /\ session = "Disconnected"
    /\ work_inited = FALSE
    /\ work_pending = FALSE
    /\ work_delay = 0
    /\ wpc = "idle"
    /\ submitCount = 0
    /\ sendCount = 0
    /\ lastTx = <<>>
    /\ sendFailed = FALSE
    /\ failedAt = 0
    /\ disc_calls = 0
    /\ disc_snap = <<>>

----------------------------------------------------------------------------
(* main() *)

\* Faulty variant: work_init also submits the work
work_init_submits ==
    /\ pc = "work_init"
    /\ work_inited' = TRUE
    /\ k_delayed_work_submit(0)
    /\ pc' = IF config.LTE_LINK_CONTROL THEN "configure_low_power"
             ELSE "client_init"
    /\ UNCHANGED <<config, err, lpCalls, lteVars, sockVars, discVars,
                   wpc, sendCount, lastTx, sendFailed, failedAt>>

\* work_init(); with link control compiled out main goes on to client_init
work_init ==
    /\ pc = "work_init"
    /\ work_inited' = TRUE
    /\ pc' = IF config.LTE_LINK_CONTROL THEN "configure_low_power"
             ELSE "client_init"
    /\ UNCHANGED <<config, err, lpCalls, lteVars, sockVars, discVars,
                   work_pending, work_delay, wpc, submitCount, sendCount,
                   lastTx, sendFailed, failedAt>>

\* Faulty variant: the release-assistance request is issued with the value
\* of its flag, like the other two
low_power_calls_rai_always(psm, edrx, rai) ==
    <<[req |-> "psm", enable |-> config.TCP_PSM_ENABLE, ret |-> psm],
      [req |-> "edrx", enable |-> config.TCP_EDRX_ENABLE, ret |-> edrx],
      [req |-> "rai", enable |-> config.TCP_RAI_ENABLE, ret |-> rai]>>

\* The requests configure_low_power issues and the value it returns, given
\* the result of each request
low_power_calls(psm, edrx, rai) ==
    <<[req |-> "psm", enable |-> config.TCP_PSM_ENABLE, ret |-> psm],
      [req |-> "edrx", enable |-> config.TCP_EDRX_ENABLE, ret |-> edrx]>>
    \o (IF config.TCP_RAI_ENABLE
        THEN <<[req |-> "rai", enable |-> TRUE, ret |-> rai]>>
        ELSE <<>>)

low_power_ret(psm, edrx, rai) ==
    IF config.TCP_RAI_ENABLE THEN rai ELSE edrx

\* Faulty variant: a failed low-power request makes main return
configure_low_power_fatal(psm, edrx, rai) ==
    /\ pc = "configure_low_power"
    /\ lpCalls' = low_power_calls(psm, edrx, rai)
    /\ err' = low_power_ret(psm, edrx, rai)
    /\ pc' = IF err' # 0 THEN "done" ELSE "modem_configure"
    /\ UNCHANGED <<config, lteVars, sockVars, workVars, discVars>>

\* err = configure_low_power(); if (err) printk(...);
configure_low_power(psm, edrx, rai) ==
    /\ pc = "configure_low_power"
    /\ lpCalls' = low_power_calls(psm, edrx, rai)
    /\ err' = low_power_ret(psm, edrx, rai)
    /\ pc' = "modem_configure"
    /\ UNCHANGED <<config, lteVars, sockVars, workVars, discVars>>

\* lte_lc_init_and_connect_async(lte_handler) returning init: on success the
\* handler is registered and the modem starts to connect, on error neither
lte_lc_init_and_connect_async(init) ==
    /\ modemStarted' = (init = 0)
    /\ handlerRegistered' = (init = 0)

\* Faulty variant: on an initialisation error modem_configure releases the
\* wait itself
modem_configure_give_on_error(init) ==
    /\ pc = "modem_configure"
    /\ IF config.LTE_AUTO_INIT_AND_CONNECT
       THEN UNCHANGED <<modemStarted, handlerRegistered, lte_connected>>
       ELSE /\ lte_lc_init_and_connect_async(init)
            /\ lte_connected' = IF init # 0 THEN k_sem_give(lte_connected)
                                ELSE lte_connected
    /\ pc' = "sem_take"
    /\ UNCHANGED <<config, err, lpCalls, linkState, everRegistered,
                   sockVars, workVars, discVars>>

\* modem_configure(); init is the result of lte_lc_init_and_connect_async
modem_configure(init) ==
    /\ pc = "modem_configure"
    /\ IF config.LTE_AUTO_INIT_AND_CONNECT
       THEN UNCHANGED <<modemStarted, handlerRegistered>>
       ELSE lte_lc_init_and_connect_async(init)
    /\ pc' = "sem_take"
    /\ UNCHANGED <<config, err, lpCalls, linkState, everRegistered,
                   lte_connected, sockVars, workVars, discVars>>

\* Faulty variant: main does not wait for the semaphore
sem_take_nowait ==
    /\ pc = "sem_take"
    /\ lte_connected' = IF lte_connected > 0 THEN lte_connected - 1 ELSE 0
    /\ pc' = "client_init"
    /\ UNCHANGED <<config, err, lpCalls, modemStarted, handlerRegistered,
                   linkState, everRegistered, sockVars,
                   workVars, discVars>>

\* k_sem_take(&lte_connected, K_FOREVER)
sem_take ==
    /\ pc = "sem_take"
    /\ lte_connected > 0
    /\ lte_connected' = lte_connected - 1
    /\ pc' = "client_init"
    /\ UNCHANGED <<config, err, lpCalls, modemStarted, handlerRegistered,
                   linkState, everRegistered, sockVars,
                   workVars, discVars>>

\* err = client_init(); it always returns 0
client_init ==
    /\ pc = "client_init"
    /\ err' = 0
    /\ pc' = IF err' # 0 THEN "done" ELSE "client_connect"
    /\ UNCHANGED <<config, lpCalls, lteVars, sockVars, workVars, discVars>>

\* client_disconnect(): (void)close(client_fd); client_fd keeps its value
client_disconnect(open, log, fd) == close(open, log, fd)

\* Faulty variant: the connect-failure path returns without client_disconnect()
client_connect_leak(sock, conn) ==
    /\ pc = "client_connect"
    /\ socketLog' = Append(socketLog, sock)
    /\ client_fd' = sock
    /\ IF sock < 0
       THEN /\ err' = 0
            /\ UNCHANGED <<connectLog, openFds, closeLog, session>>
       ELSE /\ connectLog' = Append(connectLog, conn)
            /\ openFds' = openFds \cup {sock}
            /\ closeLog' = closeLog
            /\ session' = IF conn < 0 THEN "Failed" ELSE "Connected"
            /\ err' = IF conn < 0 THEN conn ELSE 0
    /\ pc' = IF err' # 0 THEN "done" ELSE "submit"
    /\ UNCHANGED <<config, lpCalls, lteVars, workVars, discVars>>

\* Faulty variant: the connect-failure path closes the socket and returns 0
client_connect_swallow(sock, conn) ==
    /\ pc = "client_connect"
    /\ socketLog' = Append(socketLog, sock)
    /\ client_fd' = sock
    /\ err' = 0
    /\ IF sock < 0
       THEN UNCHANGED <<connectLog, openFds, closeLog, session>>
       ELSE /\ connectLog' = Append(connectLog, conn)
            /\ IF conn < 0
               THEN LET c == client_disconnect(openFds \cup {sock}, closeLog, sock)
                    IN  /\ openFds' = c.open
                        /\ closeLog' = c.log
                        /\ session' = "Failed"
               ELSE /\ openFds' = openFds \cup {sock}
                    /\ closeLog' = closeLog
                    /\ session' = "Connected"
    /\ pc' = IF err' # 0 THEN "done" ELSE "submit"
    /\ UNCHANGED <<config, lpCalls, lteVars, workVars, discVars>>

\* err = client_connect(); if (err) return;
\* sock is what socket() returns, conn what connect() returns
client_connect(sock, conn) ==
    /\ pc = "client_connect"
    /\ socketLog' = Append(socketLog, sock)
    /\ client_fd' = sock
    /\ IF sock < 0
       THEN \* "Failed to create TCP socket": return 0
            /\ err' = 0
            /\ UNCHANGED <<connectLog, openFds, closeLog, session>>
       ELSE /\ connectLog' = Append(connectLog, conn)
            /\ IF conn < 0
               THEN \* goto error: client_disconnect(); return err
                    LET c == client_disconnect(openFds \cup {sock}, closeLog, sock)
                    IN  /\ openFds' = c.open
                        /\ closeLog' = c.log
                        /\ session' = "Failed"
                        /\ err' = conn
               ELSE /\ openFds' = openFds \cup {sock}
                    /\ closeLog' = closeLog
                    /\ session' = "Connected"
                    /\ err' = 0
    /\ pc' = IF err' # 0 THEN "done" ELSE "submit"
    /\ UNCHANGED <<config, lpCalls, lteVars, workVars, discVars>>

\* k_delayed_work_submit(&server_transmission_work, K_NO_WAIT); main returns
submit_first ==
    /\ pc = "submit"
    /\ k_delayed_work_submit(0)
    /\ pc' = "done"
    /\ UNCHANGED <<config, err, lpCalls, lteVars, sockVars, discVars,
                   work_inited, wpc, sendCount, lastTx, sendFailed, failedAt>>

----------------------------------------------------------------------------
(* LTE link events *)

\* Faulty variant: every registration-status event releases the semaphore
lte_handler_any_status(e) ==
    lte_connected' = IF e.type = "NW_REG_STATUS"
                     THEN k_sem_give(lte_connected)
                     ELSE lte_connected

\* lte_handler(evt)
lte_handler(e) ==
    lte_connected' =
        IF e.type = "NW_REG_STATUS"
           /\ ~ (e.nw_reg_status # "REGISTERED_HOME"
                 /\ e.nw_reg_status # "REGISTERED_ROAMING")
        THEN k_sem_give(lte_connected)
        ELSE lte_connected

\* The modem reports event e; the library passes it to the registered handler
LteEvent(e) ==
    /\ modemStarted
    /\ handlerRegistered
    /\ linkState' = IF e.type = "NW_REG_STATUS" THEN e.nw_reg_status
                    ELSE linkState
    /\ everRegistered' = (everRegistered \/ linkState' \in Registered)
    /\ lte_handler(e)
    /\ UNCHANGED <<config, mainVars, lpCalls, modemStarted, handlerRegistered,
                   sockVars, workVars, discVars>>

\* The registration status changes while no handler is registered
LinkChange(status) ==
    /\ modemStarted
    /\ ~ handlerRegistered
    /\ status # linkState
    /\ linkState' = status
    /\ everRegistered' = (everRegistered \/ status \in Registered)
    /\ UNCHANGED <<config, mainVars, lpCalls, modemStarted, handlerRegistered,
                   lte_connected, sockVars, workVars, discVars>>

----------------------------------------------------------------------------
(* The delayed work on the system work queue *)

\* One second of the kernel timer passes for the pending work
Tick ==
    /\ work_pending
    /\ work_delay > 0
    /\ work_delay' = work_delay - 1
    /\ UNCHANGED <<config, mainVars, lpCalls, lteVars, sockVars, discVars,
                   work_inited, work_pending, wpc, submitCount, sendCount,
                   lastTx, sendFailed, failedAt>>

\* Faulty variant: the work re-submits itself before it calls send()
work_fn_begin_rearm_first ==
    /\ work_inited
    /\ work_pending
    /\ work_delay = 0
    /\ wpc = "idle"
    /\ k_delayed_work_submit(UploadFrequencySeconds)
    /\ wpc' = "send"
    /\ sendCount' = Min(sendCount + 1, MaxFirings)
    /\ UNCHANGED <<config, mainVars, lpCalls, lteVars, sockVars, discVars,
                   work_inited, lastTx, sendFailed, failedAt>>

\* The timeout expires: server_transmission_work_fn starts and calls
\* send(client_fd, buffer, sizeof(buffer), 0)
work_fn_begin ==
    /\ work_inited
    /\ work_pending
    /\ work_delay = 0
    /\ wpc = "idle"
    /\ work_pending' = FALSE
    /\ wpc' = "send"
    /\ sendCount' = Min(sendCount + 1, MaxFirings)
    /\ UNCHANGED <<config, mainVars, lpCalls, lteVars, sockVars, discVars,
                   work_inited, work_delay, submitCount, lastTx, sendFailed,
                   failedAt>>

\* What send() may return: an error, or the number of bytes it accepted;
\* on a descriptor that is not an open socket only an error
send_results ==
    IF client_fd \in openFds
    THEN {-1} \cup (0..config.TCP_DATA_UPLOAD_SIZE_BYTES)
    ELSE {-1}

\* Faulty variant: the work re-submits itself whatever send() returned
work_fn_end_always_rearm(n) ==
    /\ wpc = "send"
    /\ n \in send_results
    /\ wpc' = "idle"
    /\ k_delayed_work_submit(UploadFrequencySeconds)
    /\ IF n < 0
       THEN LET c == close(openFds, closeLog, client_fd)
            IN  /\ openFds' = c.open
                /\ closeLog' = c.log
                /\ session' = "Failed"
                /\ lastTx' = <<>>
                /\ sendFailed' = TRUE
                /\ failedAt' = sendCount
       ELSE /\ lastTx' = SubSeq(buffer, 1, n)
            /\ UNCHANGED <<openFds, closeLog, session, sendFailed, failedAt>>
    /\ UNCHANGED <<config, mainVars, lpCalls, lteVars, discVars, client_fd,
                   socketLog, connectLog, work_inited, sendCount>>

\* Faulty variant: the work stops after a successful send
work_fn_end_never_rearm(n) ==
    /\ wpc = "send"
    /\ n \in send_results
    /\ wpc' = "idle"
    /\ IF n < 0
       THEN LET c == close(openFds, closeLog, client_fd)
            IN  /\ openFds' = c.open
                /\ closeLog' = c.log
                /\ session' = "Failed"
                /\ lastTx' = <<>>
                /\ sendFailed' = TRUE
                /\ failedAt' = sendCount
       ELSE /\ lastTx' = SubSeq(buffer, 1, n)
            /\ UNCHANGED <<openFds, closeLog, session, sendFailed, failedAt>>
    /\ UNCHANGED <<work_pending, work_delay, submitCount>>
    /\ UNCHANGED <<config, mainVars, lpCalls, lteVars, discVars, client_fd,
                   socketLog, connectLog, work_inited, sendCount>>

\* send() returns n: on err < 0 close(client_fd) and return, otherwise
\* k_delayed_work_submit(..., K_SECONDS(CONFIG_TCP_DATA_UPLOAD_FREQUENCY_SECONDS))
work_fn_end(n) ==
    /\ wpc = "send"
    /\ n \in send_results
    /\ wpc' = "idle"
    /\ IF n < 0
       THEN LET c == close(openFds, closeLog, client_fd)
            IN  /\ openFds' = c.open
                /\ closeLog' = c.log
                /\ session' = "Failed"
                /\ lastTx' = <<>>
                /\ sendFailed' = TRUE
                /\ failedAt' = sendCount
                /\ UNCHANGED <<work_pending, work_delay, submitCount>>
       ELSE /\ lastTx' = SubSeq(buffer, 1, n)
            /\ k_delayed_work_submit(UploadFrequencySeconds)
            /\ UNCHANGED <<openFds, closeLog, session, sendFailed, failedAt>>
    /\ UNCHANGED <<config, mainVars, lpCalls, lteVars, discVars, client_fd,
                   socketLog, connectLog, work_inited, sendCount>>

----------------------------------------------------------------------------
(* The program *)

Main ==
    \/ work_init
    \/ \E psm \in Results, edrx \in Results, rai \in Results :
          configure_low_power(psm, edrx, rai)
    \/ \E init \in Results : modem_configure(init)
    \/ sem_take
    \/ client_init
    \/ \E sock \in {-1} \cup (Fds \ openFds), conn \in Results :
          client_connect(sock, conn)
    \/ submit_first

Lte ==
    \/ \E e \in Events : LteEvent(e)
    \/ \E status \in RegStatuses : LinkChange(status)

Work ==
    \/ Tick
    \/ work_fn_begin
    \/ \E n \in {-1} \cup (0..MaxPayload) : work_fn_end(n)

Next == Main \/ Lte \/ Work

Spec == Init /\ [][Next]_vars

\* Scheduling: main runs to its end or to the wait, the kernel timer
\* advances, the system work queue runs the pending work, send() returns
FairSpec ==
    /\ Spec
    /\ WF_vars(Main)
    /\ WF_vars(Tick)
    /\ WF_vars(work_fn_begin)
    /\ WF_vars(\E n \in {-1} \cup (0..MaxPayload) : work_fn_end(n))

----------------------------------------------------------------------------
(* client_disconnect() called twice in succession from any program state *)

\* One call of client_disconnect(); disc_snap keeps the state left by the
\* first call
client_disconnect_call ==
    /\ disc_calls < 2
    /\ LET c == client_disconnect(openFds, closeLog, client_fd)
       IN  /\ openFds' = c.open
           /\ closeLog' = c.log
    /\ session' = IF session = "Connected" THEN "Disconnected" ELSE session
    /\ disc_calls' = disc_calls + 1
    /\ disc_snap' = IF disc_calls = 0
                    THEN <<client_fd, openFds', session', Len(closeLog')>>
                    ELSE disc_snap
    /\ UNCHANGED <<config, mainVars, lpCalls, lteVars, workVars, client_fd,
                   socketLog, connectLog>>

NextDisconnect ==
    \/ disc_calls = 0 /\ Next
    \/ client_disconnect_call

SpecDisconnect == Init /\ [][NextDisconnect]_vars

----------------------------------------------------------------------------
(* Properties *)

SocketFailed == \E i \in DOMAIN socketLog : socketLog[i] < 0
ConnectFailed == \E i \in DOMAIN connectLog : connectLog[i] < 0
ConnectSucceeded == \E i \in DOMAIN connectLog : connectLog[i] = 0

\* C1: in every execution where socket() or connect() returned an error,
\* server_transmission_work is never submitted and send is never called.
C1_ConnectFailureNeverArms ==
    (SocketFailed \/ ConnectFailed) =>
        (submitCount = 0 /\ ~ work_pending /\ sendCount = 0 /\ wpc = "idle")

\* C2: once send has failed on firing K the work is not pending and not
\* running, no submission and no send beyond the K-th exists, and the
\* session is Failed with its socket released.
C2_SendFailureStops ==
    sendFailed =>
        /\ ~ work_pending
        /\ wpc = "idle"
        /\ sendCount = failedAt
        /\ submitCount = failedAt
        /\ session = "Failed"
        /\ client_fd \notin openFds
        /\ openFds = {}

\* C2 witness: send failed on the 3rd firing of a connected session
C2_Witness ==
    /\ sendFailed
    /\ failedAt = 3
    /\ sendCount = 3
    /\ ConnectSucceeded

\* Submissions of server_transmission_work that are pending or executing
Outstanding ==
    (IF work_pending THEN 1 ELSE 0) + (IF wpc = "send" THEN 1 ELSE 0)

\* C3: at most one submission of the work is pending or executing, and
\* while the send of firing N is in progress firing N+1 is not armed.
C3_OneOutstandingFiring ==
    /\ Outstanding <= 1
    /\ wpc = "send" => (~ work_pending /\ submitCount <= sendCount)
    /\ submitCount <= sendCount + 1

\* C3 witness: the second firing is executing its send
C3_Witness == wpc = "send" /\ sendCount = 2 /\ submitCount = 2

\* C4: every firing treated as a successful send (the work re-armed itself)
\* has transmitted exactly the CONFIG_TCP_DATA_UPLOAD_SIZE_BYTES zero bytes.
C4_SuccessfulFiringSendsAll ==
    (sendCount > 0 /\ wpc = "idle" /\ ~ sendFailed) =>
        /\ Len(lastTx) = config.TCP_DATA_UPLOAD_SIZE_BYTES
        /\ \A i \in DOMAIN lastTx : lastTx[i] = 0

\* main() is past k_sem_take
PastWait == pc \in {"client_init", "client_connect", "submit", "done"}

\* C5: with link control enabled, main does not pass the wait before the
\* link has been registered, and the wait can return at once whenever the
\* link is registered while main is at the wait.
C5_WaitFollowsRegistration ==
    config.LTE_LINK_CONTROL =>
        /\ PastWait => everRegistered
        /\ (pc = "sem_take" /\ linkState \in Registered) => lte_connected > 0

C7_DisconnectIdempotent ==
    disc_calls = 2 =>
        /\ <<client_fd, openFds, session>> =
               <<disc_snap[1], disc_snap[2], disc_snap[3]>>
        /\ Cardinality({i \in (disc_snap[4])..Len(closeLog) :
                            closeLog[i].released}) <= 1
        /\ \A i \in (disc_snap[4] + 1)..Len(closeLog) : closeLog[i].released

\* C8: the first firing is submitted with zero delay, every successful send
\* re-arms the work after the upload interval, and if the session stays
\* Connected for ever then sends occur infinitely often.
C8_StreamsForever ==
    /\ [][(pc = "submit" /\ pc' = "done") =>
              (work_pending' /\ work_delay' = 0)]_vars
    /\ [][(wpc = "send" /\ wpc' = "idle" /\ ~ sendFailed') =>
              (work_pending' /\ work_delay' = UploadFrequencySeconds)]_vars
    /\ (<>[](session = "Connected")) => ([]<>(wpc = "send"))

\* C8 witness: a connected session re-armed after its third successful send
C8_Witness ==
    /\ session = "Connected"
    /\ everRegistered
    /\ sendCount = 3
    /\ wpc = "idle"
    /\ work_pending
    /\ work_delay = UploadFrequencySeconds

LowPowerFailures == {i \in DOMAIN lpCalls : lpCalls[i].ret # 0}

\* C9: whatever the PSM, eDRX and RAI requests return, main goes from
\* configure_low_power to modem_configure, to the wait, and from the wait
\* to client_init and client_connect; each of these steps is enabled
\* whether or not a request failed.
C9_LowPowerErrorsNotFatal ==
    /\ [][/\ pc = "configure_low_power" =>
                pc' \in {"configure_low_power", "modem_configure"}
          /\ pc = "modem_configure" =>
                pc' \in {"modem_configure", "sem_take"}
          /\ pc = "sem_take" => pc' \in {"sem_take", "client_init"}
          /\ pc = "client_init" =>
                pc' \in {"client_init", "client_connect"}]_vars
    /\ [](pc = "modem_configure" => ENABLED (\E i \in Results : modem_configure(i)))
    /\ []((pc = "sem_take" /\ lte_connected > 0) => ENABLED sem_take)
    /\ [](pc = "client_init" => ENABLED client_init)

\* C9 witness: all three requests failed and the session is connected
C9_Witness ==
    /\ Len(lpCalls) = 3
    /\ Cardinality(LowPowerFailures) = 3
    /\ session = "Connected"

\* The event is a registration to the home network or roaming
Registers(e) ==
    e.type = "NW_REG_STATUS" /\ e.nw_reg_status \in Registered

\* C10: lte_handler leaves the semaphore, client_fd, the sockets and the
\* delayed work unchanged for every event that is not a registration to
\* home or roaming, and the semaphore count rises only on such an event.
C10_OnlyRegistrationGives ==
    /\ [][\A e \in Events :
            (LteEvent(e) /\ ~ Registers(e)) =>
                UNCHANGED <<lte_connected, sockVars, workVars, mainVars>>]_vars
    /\ [][lte_connected' > lte_connected =>
            \E e \in Events : Registers(e) /\ LteEvent(e)]_vars

\* C10 witness: a registration-status event with another status was handled
\* and main is still waiting
C10_Witness ==
    /\ handlerRegistered
    /\ linkState = "SEARCHING"
    /\ lte_connected = 0
    /\ ~ everRegistered
    /\ pc = "sem_take"

\* C11: socket() and connect() are each called at most once, and after a
\* failure of socket creation, of connect or of send no socket creation,
\* connect or send is attempted.
C11_NoRetry ==
    /\ Len(socketLog) <= 1
    /\ Len(connectLog) <= 1
    /\ (SocketFailed \/ ConnectFailed) =>
           (sendCount = 0 /\ wpc = "idle" /\ ~ work_pending
            /\ submitCount = 0)
    /\ sendFailed =>
           (sendCount = failedAt /\ wpc = "idle" /\ ~ work_pending
            /\ pc = "done")

\* The registration wait has been released by lte_handler
RegistrationDelivered == handlerRegistered /\ everRegistered

\* C12: with link control no socket is created and no connect attempted
\* before a home or roaming registration was delivered to lte_handler, the
\* work is initialised before it can be submitted, and it is first submitted
\* only after client_connect has returned.
C12_StartupOrder ==
    /\ (config.LTE_LINK_CONTROL /\ (PastWait \/ socketLog # <<>>)) =>
           RegistrationDelivered
    /\ (socketLog # <<>> \/ connectLog # <<>>) =>
           pc \in {"submit", "done"}
    /\ (submitCount > 0 \/ work_pending \/ wpc = "send") =>
           (work_inited /\ socketLog # <<>> /\ pc = "done")
    /\ pc # "work_init" => work_inited

\* C12 witness: link control is enabled and the first firing is submitted
\* on a connected session
C12_Witness ==
    /\ config.LTE_LINK_CONTROL
    /\ RegistrationDelivered
    /\ session = "Connected"
    /\ submitCount = 1
    /\ work_pending
    /\ work_delay = 0

\* C13: client_fd and the socket are written by main only in client_connect,
\* before the work is first submitted; once the work is submitted main has
\* returned and only the work's send/close step touches the socket; and
\* lte_handler never changes any of them.
C13_ClientFdExclusive ==
    /\ [][client_fd' # client_fd =>
            (pc = "client_connect" /\ submitCount = 0 /\ ~ work_pending
             /\ wpc = "idle")]_vars
    /\ [][(openFds' # openFds \/ closeLog' # closeLog) =>
            \/ (pc = "client_connect" /\ submitCount = 0 /\ wpc = "idle")
            \/ (pc = "done" /\ wpc = "send")]_vars
    /\ []((work_pending \/ wpc = "send" \/ submitCount > 0) => pc = "done")
    /\ [][\A e \in Events :
            LteEvent(e) => UNCHANGED <<client_fd, openFds, closeLog,
                                       socketLog, connectLog>>]_vars

\* C13 witness: the work is in its send on the open socket after main has
\* returned, with the link lost in the meantime
C13_Witness ==
    /\ wpc = "send"
    /\ pc = "done"
    /\ client_fd \in openFds
    /\ handlerRegistered
    /\ linkState = "NOT_REGISTERED"

\* configure_low_power has run
LowPowerDone ==
    config.LTE_LINK_CONTROL /\ pc \notin {"work_init", "configure_low_power"}

\* Positions in lpCalls of the requests of one kind
Requests(kind) == {i \in DOMAIN lpCalls : lpCalls[i].req = kind}

\* C14: configure_low_power issues the PSM and the eDRX request exactly
\* once each, with the value of its flag, whatever an earlier request
\* returned; the release-assistance request is issued only when its flag is
\* enabled, and never with the value false.
C14_LowPowerRequests ==
    /\ ~ LowPowerDone => lpCalls = <<>>
    /\ LowPowerDone =>
          /\ Cardinality(Requests("psm")) = 1
          /\ \A i \in Requests("psm") :
                lpCalls[i].enable = config.TCP_PSM_ENABLE
          /\ Cardinality(Requests("edrx")) = 1
          /\ \A i \in Requests("edrx") :
                lpCalls[i].enable = config.TCP_EDRX_ENABLE
          /\ Cardinality(Requests("rai")) =
                (IF config.TCP_RAI_ENABLE THEN 1 ELSE 0)
    /\ \A i \in Requests("rai") : lpCalls[i].enable

\* C14 witness: the PSM request failed, the eDRX request was still issued,
\* and no release-assistance request was made with the flag disabled
C14_Witness ==
    /\ LowPowerDone
    /\ ~ config.TCP_RAI_ENABLE
    /\ ~ config.TCP_EDRX_ENABLE
    /\ Len(lpCalls) = 2
    /\ lpCalls[1].req = "psm" /\ lpCalls[1].ret # 0
    /\ lpCalls[2].req = "edrx" /\ lpCalls[2].enable = FALSE

\* C15: the count of lte_connected stays within 0..1, and an event handled
\* after main has passed the wait changes neither main's position, nor the
\* sockets, nor the work; no second socket or connect call is ever made
\* and main stays returned.
C15_LateEventsHarmless ==
    /\ [](lte_connected \in 0..SemLimit)
    /\ [](Len(socketLog) <= 1 /\ Len(connectLog) <= 1)
    /\ [][\A e \in Events :
            (PastWait /\ LteEvent(e)) =>
                UNCHANGED <<mainVars, sockVars, workVars>>]_vars
    /\ [][pc = "done" => pc' = "done"]_vars
    /\ [][submitCount' # submitCount =>
            (pc = "submit" \/ (wpc = "send" /\ ~ sendFailed'))]_vars

\* C15 witness: a registration was delivered again after main passed the
\* wait, while the session is streaming
C15_Witness ==
    /\ pc = "done"
    /\ lte_connected = 1
    /\ linkState = "REGISTERED_ROAMING"
    /\ session = "Connected"
    /\ sendCount = 2

\* lte_lc_init_and_connect_async has returned an error
InitFailed ==
    /\ config.LTE_LINK_CONTROL
    /\ ~ config.LTE_AUTO_INIT_AND_CONNECT
    /\ pc \notin {"work_init", "configure_low_power", "modem_configure"}
    /\ ~ modemStarted

C17_CloseAtMostOnce ==
    /\ Len(closeLog) <= 1
    /\ ~ (ConnectFailed /\ sendFailed)
    /\ Cardinality({i \in DOMAIN closeLog : closeLog[i].released}) <= 1

\* C17 witness: the send-failure path closed the connected socket
C17_Witness ==
    /\ sendFailed
    /\ ConnectSucceeded
    /\ closeLog = <<[fd |-> client_fd, released |-> TRUE]>>

====
